---- MODULE Spec2Model ----
(***************************************************************************)
(* Model of src/lib/jose-jwe-encrypt.js: the JWE compact-serialization     *)
(* encryption pipelines of js-jose.                                        *)
(*                                                                         *)
(*   - class Encrypter (lines 24-141): header, IV and AAD are built by the *)
(*     Encrypter, the content encryption is delegated to a cryptographer.  *)
(*   - JoseJWE.prototype.* (lines 149-315): the pipeline that calls        *)
(*     crypto.subtle itself, in AEAD mode or in composite (cipher + MAC)   *)
(*     mode.                                                               *)
(*                                                                         *)
(* Strings are sequences of character codes, byte arrays are sequences of  *)
(* 0..255.  A promise is a record [st, v, err]; every then-callback is an  *)
(* action enabled once the promise it is attached to has settled, and the  *)
(* platform's promises (keys, crypto.subtle results) settle in             *)
(* environment actions.                                                    *)
(***************************************************************************)
EXTENDS Integers, Sequences, FiniteSets, TLC

(***************************************************************************)
(* Bounds                                                                  *)
(***************************************************************************)
\* longest IV (bytes) that createIV hands back
MaxIvLen == 2
\* longest combined output (bytes) of a cipher primitive
MaxCipherLen == 3

(***************************************************************************)
(* Strings and byte arrays                                                 *)
(***************************************************************************)
\* the '.' that joins the segments
Dot == 46

\* "alg", "enc", "kid"
StrAlg == <<97, 108, 103>>
StrEnc == <<101, 110, 99>>
StrKid == <<107, 105, 100>>
\* "dir", "RSA-OAEP"
StrDir == <<100, 105, 114>>
StrRsaOaep == <<82, 83, 65, 45, 79, 65, 69, 80>>
\* "A128GCM", "A128CBC-HS256"
StrA128GCM == <<65, 49, 50, 56, 71, 67, 77>>
StrA128CBCHS256 == <<65, 49, 50, 56, 67, 66, 67, 45, 72, 83, 50, 53, 54>>

\* Utils.arrayFromString: arr[i] = str.charCodeAt(i), stored in a Uint8Array
arrayFromString(str) == [i \in 1..Len(str) |-> str[i] % 256]

\* String.fromCharCode over an array of bytes (Base64Url.encodeArray)
stringFromArray(arr) == [i \in 1..Len(arr) |-> arr[i]]

\* the character of a 6-bit value in the base64url alphabet A-Z a-z 0-9 - _
B64Char(n) ==
    IF n < 26 THEN 65 + n
    ELSE IF n < 52 THEN 97 + (n - 26)
    ELSE IF n < 62 THEN 48 + (n - 52)
    ELSE IF n = 62 THEN 45
    ELSE 95

ByteAt(bytes, i) == IF i <= Len(bytes) THEN bytes[i] % 256 ELSE 0

\* the 24-bit group g (0-based) of the input
B64Group(bytes, g) ==
    ByteAt(bytes, 3 * g + 1) * 65536 + ByteAt(bytes, 3 * g + 2) * 256
        + ByteAt(bytes, 3 * g + 3)

Pow64(k) == IF k = 0 THEN 1 ELSE IF k = 1 THEN 64 ELSE IF k = 2 THEN 4096 ELSE 262144

\* Utils.Base64Url.encode: btoa, '+' -> '-', '/' -> '_', trailing '=' dropped
Base64UrlEncode(str) ==
    [i \in 1..((4 * Len(str) + 2) \div 3) |->
        B64Char((B64Group(str, (i - 1) \div 4) \div Pow64(3 - ((i - 1) % 4))) % 64)]

\* Utils.Base64Url.encodeArray / encodeArrayBuffer
Base64UrlEncodeArray(arr) == Base64UrlEncode(stringFromArray(arr))

RECURSIVE JSONEscape(_)
\* the body of a JSON string literal: '"' and '\' are escaped
JSONEscape(s) ==
    IF s = <<>> THEN <<>>
    ELSE (IF Head(s) = 34 \/ Head(s) = 92
             THEN <<92, Head(s)>> ELSE <<Head(s)>>) \o JSONEscape(Tail(s))

JSONQuote(s) == <<34>> \o JSONEscape(s) \o <<34>>

RECURSIVE JSONMembers(_)
JSONMembers(h) ==
    IF h = <<>> THEN <<>>
    ELSE JSONQuote(h[1].k) \o <<58>> \o JSONQuote(h[1].v)
            \o (IF Len(h) > 1 THEN <<44>> ELSE <<>>) \o JSONMembers(Tail(h))

\* JSON.stringify of an object with string values; an object is the sequence
\* of its own properties in insertion order
JSONStringify(h) == <<123>> \o JSONMembers(h) \o <<125>>

\* obj[k] = v: an existing property keeps its place, a new one is appended
PutProp(h, k, v) ==
    IF \E i \in 1..Len(h) : h[i].k = k
    THEN [i \in 1..Len(h) |-> IF h[i].k = k THEN [k |-> k, v |-> v] ELSE h[i]]
    ELSE Append(h, [k |-> k, v |-> v])

HasProp(h, k) == \E i \in 1..Len(h) : h[i].k = k
GetProp(h, k) == h[CHOOSE i \in 1..Len(h) : h[i].k = k].v

\* ArrayBuffer.prototype.slice(begin, end): negative indices count from the
\* end, both are clamped to [0, length]
RelIndex(n, len) ==
    IF n < 0 THEN (IF len + n < 0 THEN 0 ELSE len + n)
    ELSE IF n > len THEN len ELSE n

Slice(buf, begin, end) ==
    LET lo == RelIndex(begin, Len(buf))
        hi == RelIndex(end, Len(buf))
    IN  IF hi <= lo THEN <<>> ELSE SubSeq(buf, lo + 1, hi)

SliceFrom(buf, begin) == Slice(buf, begin, Len(buf))

RECURSIVE SplitAt(_, _, _)
\* str.split(sep), cur being the segment collected so far
SplitAt(str, sep, cur) ==
    IF str = <<>> THEN <<cur>>
    ELSE IF Head(str) = sep THEN <<cur>> \o SplitAt(Tail(str), sep, <<>>)
    ELSE SplitAt(Tail(str), sep, Append(cur, Head(str)))

Split(str, sep) == SplitAt(str, sep, <<>>)
(***************************************************************************)
(* Inputs                                                                  *)
(***************************************************************************)
\* the <<key, value>> pairs the caller passes to addHeader: alg -> 1,
\* enc -> 1, kid -> x"
HeaderInputs == {<<StrAlg, <<49>>>>, <<StrEnc, <<49>>>>, <<StrKid, <<120, 34>>>>}

\* key_encryption.jwe_name / getKeyEncryptionAlgorithm()
KeyAlgs == {StrDir, StrRsaOaep}

\* content_encryption: an AEAD cipher, or a cipher paired with a MAC.  The
\* lengths are scaled down (one-byte IV, 8-bit keys); tag_length 12 and
\* truncated_length 12 are the misconfigured ones.
AeadConfigs ==
    {[jwe_name |-> StrA128GCM, iv_length |-> 1, aead |-> TRUE, tag_length |-> t,
      truncated_length |-> 0, key_size |-> 0, id_length |-> 8] : t \in {8, 12, 16}}

CompositeConfigs ==
    {[jwe_name |-> StrA128CBCHS256, iv_length |-> 1, aead |-> FALSE, tag_length |-> 0,
      truncated_length |-> t, key_size |-> 8, id_length |-> 8] : t \in {8, 12}}

Configs == AeadConfigs \cup CompositeConfigs

\* what createIV hands back: crypto.getRandomValues, or a mock of any length
IVs == {[i \in 1..n |-> 250 + i] : n \in 0..MaxIvLen}

PlainTexts == {<<104, 105>>}
KeyValues == {<<1>>}
CekValues == {<<10, 20>>, <<10, 20, 30>>}
PresetCeks == {<<77, 88>>}
WrappedValues == {<<200, 201>>}
\* outputs of a cipher primitive, up to MaxCipherLen bytes
CipherOutputs == {[i \in 1..n |-> 40 + i] : n \in 0..MaxCipherLen}
MacValues == {<<50, 51, 52>>}

\* what a cryptographer resolves with; header and iv are whatever fields
\* the object carries before the Encrypter sets them
CryptographerResults ==
    {[cipher |-> <<5, 6>>, tag |-> <<9>>, header |-> h, iv |-> h] :
        h \in {<<>>, <<88>>}}

(***************************************************************************)
(* Promises                                                                *)
(***************************************************************************)
Pending == [st |-> "pending", v |-> <<>>, err |-> ""]
Resolved(v) == [st |-> "resolved", v |-> v, err |-> ""]
Rejected(e) == [st |-> "rejected", v |-> <<>>, err |-> e]

PromiseNames ==
    {"key", "cek", "wrap", "cgEnc", "enc", "out",
     "cekBytes", "macKey", "encKey", "cipherText", "mac"}

\* one invocation of a collaborator: the operation and its arguments
Call(op, key, ivArg, aadArg, dataArg, n) ==
    [op |-> op, key |-> key, iv |-> ivArg, aad |-> aadArg, data |-> dataArg, n |-> n]

NoData == [cipher |-> <<>>, tag |-> <<>>, header |-> <<>>, iv |-> <<>>]

(***************************************************************************)
(* State                                                                   *)
(***************************************************************************)
VARIABLES
    api,          \* which object the call is made on: "Encrypter" or "JoseJWE"
    alg,          \* the key-encryption algorithm's JWE name
    cfg,          \* content_encryption
    hostLE,       \* the host stores a Uint32 least significant byte first
    userHeaders,  \* Encrypter.userHeaders
    phase,        \* "idle" before encrypt() is called, "called" after
    presetCEK,    \* the presetCEK argument: [defined, v]
    plain,        \* the plaintext bytes
    headers,      \* the header object that is serialized
    header,       \* jweProtectedHeader / jwe_protected_header
    iv,           \* the IV createIV returned
    aad,          \* the AAD derived from the header
    p,            \* the promises of the call
    r,            \* what cryptographer.encrypt resolved with
    data,         \* what encPromise / enc_promise resolved with
    failures,     \* the failures of the stages, in the order they happened
    first,        \* which of the two joined promises settled first
    imported,     \* the key imports that completed, in the order they did
    other,        \* a second encrypt() call on the same Encrypter: its locals
    log           \* the collaborator invocations, in order

vars ==
    <<api, alg, cfg, hostLE, userHeaders, phase, presetCEK, plain, headers,
      header, iv, aad, p, r, data, failures, first, imported, other, log>>

config == <<api, alg, cfg, hostLE>>
locals == <<presetCEK, plain, headers, header, iv, aad>>

\* as Direct, but the comparison never matches
DirectNever == FALSE

\* this.cryptographer.getKeyEncryptionAlgorithm() === 'dir'
Direct == api = "Encrypter" /\ alg = StrDir

\* the branch that settled first, once the promise called name has settled
First(name) == IF first = "none" /\ name \in {"wrap", "enc"} THEN name ELSE first

\* as CekPromise, but the content encryption is always given the recipient key
CekPromiseAlwaysKey == p.key

\* cekPromise: under 'dir' it is Promise.resolve(this.keyPromise), the key
\* promise itself
CekPromise == IF Direct THEN p.key ELSE p.cek

Invoked(op) == \E i \in 1..Len(log) : log[i].op = op
Count(op) == Cardinality({i \in 1..Len(log) : log[i].op = op})
TheCall(op) == log[CHOOSE i \in 1..Len(log) : log[i].op = op]

\* where the cekPromise of a call comes from: the key promise of the
\* Encrypter, the presetCEK the caller passed, or the n-th createCek() call
CekOrigin(direct, preset, n) ==
    IF direct THEN [from |-> "keyPromise", v |-> <<>>, n |-> 0]
    ELSE IF preset.defined THEN [from |-> "presetCEK", v |-> preset.v, n |-> 0]
    ELSE [from |-> "createCek", v |-> <<>>, n |-> n]

\* no second call
NoCall ==
    [called |-> FALSE, headers |-> <<>>, header |-> <<>>, iv |-> <<>>,
     aad |-> <<>>, cek |-> CekOrigin(FALSE, [defined |-> FALSE, v |-> <<>>], 0),
     log |-> <<>>]

Init ==
    /\ api \in {"Encrypter", "JoseJWE"}
    /\ alg \in IF api = "Encrypter" THEN KeyAlgs ELSE {StrRsaOaep}
    /\ cfg \in IF api = "Encrypter"
                  THEN {c \in Configs : c.tag_length \in {0, 8}
                                           /\ c.truncated_length \in {0, 8}}
                  ELSE Configs
    /\ hostLE \in IF api = "Encrypter" \/ cfg.aead THEN {TRUE} ELSE BOOLEAN
    /\ userHeaders = <<>>
    /\ phase = "idle"
    /\ presetCEK = [defined |-> FALSE, v |-> <<>>]
    /\ plain = <<>>
    /\ headers = <<>>
    /\ header = <<>>
    /\ iv = <<>>
    /\ aad = <<>>
    /\ p = [n \in PromiseNames |-> Pending]
    /\ r = NoData
    /\ data = NoData
    /\ failures = <<>>
    /\ first = "none"
    /\ imported = <<>>
    /\ other = NoCall
    /\ log = <<>>

(***************************************************************************)
(* class Encrypter                                                         *)
(***************************************************************************)
\* addHeader(k, v)
addHeader(k, v) ==
    /\ api = "Encrypter"
    /\ userHeaders' = PutProp(userHeaders, k, v)
    /\ UNCHANGED <<config, other, imported, phase, locals, p, r, data, failures, first, log>>

\* as EncrypterHeaders, but an alg or enc the caller added is kept
EncrypterHeadersKeepCaller(uh) ==
    LET h1 == IF HasProp(uh, StrAlg) THEN uh ELSE PutProp(uh, StrAlg, alg)
    IN  IF HasProp(h1, StrEnc) THEN h1 ELSE PutProp(h1, StrEnc, cfg.jwe_name)

\* the header object of encryptPlainText: a copy of userHeaders, then alg
\* and enc
EncrypterHeaders(uh) == PutProp(PutProp(uh, StrAlg, alg), StrEnc, cfg.jwe_name)

\* the AAD of encryptPlainText
EncrypterAad(hdr) == arrayFromString(hdr)

\* encrypt(uint8Array, presetCEK), up to the return of the promise
EncrypterEncrypt(pt, preset, newIv) ==
    /\ api = "Encrypter"
    /\ phase = "idle"
    /\ phase' = "called"
    /\ plain' = pt
    /\ presetCEK' = preset
    /\ headers' = EncrypterHeaders(userHeaders)
    /\ header' = Base64UrlEncode(JSONStringify(headers'))
    /\ iv' = newIv
    /\ aad' = EncrypterAad(header')
    /\ p' = [p EXCEPT
                !.cek = IF Direct \/ ~preset.defined THEN Pending
                        ELSE Resolved(preset.v),
                !.wrap = IF Direct THEN Resolved(<<>>) ELSE Pending]
    /\ first' = IF Direct THEN "wrap" ELSE "none"
    /\ log' = log
            \o (IF ~Direct /\ ~preset.defined
                   THEN <<Call("createCek", <<>>, <<>>, <<>>, <<>>, 0)>> ELSE <<>>)
            \o <<Call("createIV", <<>>, <<>>, <<>>, <<>>, 0),
                 Call("cryptographer.encrypt", <<>>, iv', aad', pt, 0)>>
    /\ UNCHANGED <<config, other, imported, userHeaders, r, data, failures>>

\* encrypt(uint8Array, presetCEK) called again on the same Encrypter after
\* the first call has returned its promise: headers, jweProtectedHeader, iv,
\* aad and cekPromise are locals of this call, userHeaders and keyPromise
\* are read from the object
EncrypterEncryptOther(pt, preset, newIv) ==
    /\ api = "Encrypter"
    /\ phase = "called"
    /\ ~other.called
    /\ LET hs == EncrypterHeaders(userHeaders)
           h == Base64UrlEncode(JSONStringify(hs))
       IN  other' =
             [called |-> TRUE,
              headers |-> hs,
              header |-> h,
              iv |-> newIv,
              aad |-> EncrypterAad(h),
              cek |-> CekOrigin(Direct, preset, Count("createCek") + 1),
              log |-> (IF ~Direct /\ ~preset.defined
                          THEN <<Call("createCek", <<>>, <<>>, <<>>, <<>>, 0)>>
                          ELSE <<>>)
                      \o <<Call("createIV", <<>>, <<>>, <<>>, <<>>, 0),
                           Call("cryptographer.encrypt", <<>>, newIv,
                                EncrypterAad(h), pt, 0)>>]
    /\ UNCHANGED <<config, imported, userHeaders, phase, locals, p, r, data,
                   failures, first, log>>

\* Promise.all([this.keyPromise, cekPromise]).then(...): wrapCek(cek, key)
EncrypterWrapCek ==
    /\ api = "Encrypter"
    /\ phase = "called"
    /\ ~Direct
    /\ p.key.st = "resolved"
    /\ p.cek.st = "resolved"
    /\ ~Invoked("wrapCek")
    /\ log' = Append(log, Call("wrapCek", p.key.v, <<>>, <<>>, p.cek.v, 0))
    /\ UNCHANGED <<config, other, imported, userHeaders, phase, locals, p, r, data, failures, first>>

\* as EncrypterAttach, but a header or iv the result carries is kept
EncrypterAttachIfAbsent ==
    /\ api = "Encrypter"
    /\ p.cgEnc.st = "resolved"
    /\ p.enc.st = "pending"
    /\ data' = [r EXCEPT !.header = IF r.header = <<>> THEN header ELSE r.header,
                         !.iv = IF r.iv = <<>> THEN iv ELSE r.iv]
    /\ p' = [p EXCEPT !.enc = Resolved(<<>>)]
    /\ UNCHANGED <<config, other, imported, userHeaders, phase, locals, r, failures, log>>
    /\ first' = First("enc")

\* as EncrypterAttach, but the header is built from userHeaders as they are
\* when the content encryption has completed
EncrypterAttachCurrentHeaders ==
    /\ api = "Encrypter"
    /\ p.cgEnc.st = "resolved"
    /\ p.enc.st = "pending"
    /\ data' = [r EXCEPT
                   !.header = Base64UrlEncode(JSONStringify(EncrypterHeaders(userHeaders))),
                   !.iv = iv]
    /\ p' = [p EXCEPT !.enc = Resolved(<<>>)]
    /\ UNCHANGED <<config, other, imported, userHeaders, phase, locals, r, failures, log>>
    /\ first' = First("enc")

\* encryptPomise.then(function (r) { r.header = ...; r.iv = iv; return r; })
EncrypterAttach ==
    /\ api = "Encrypter"
    /\ p.cgEnc.st = "resolved"
    /\ p.enc.st = "pending"
    /\ data' = [r EXCEPT !.header = header, !.iv = iv]
    /\ p' = [p EXCEPT !.enc = Resolved(<<>>)]
    /\ UNCHANGED <<config, other, imported, userHeaders, phase, locals, r, failures, log>>
    /\ first' = First("enc")

\* the string the final then-callback of Encrypter.encrypt returns
EncrypterSerialize(encryptedCek, d) ==
    d.header \o <<Dot>> \o
        Base64UrlEncodeArray(encryptedCek) \o <<Dot>> \o
        Base64UrlEncodeArray(d.iv) \o <<Dot>> \o
        Base64UrlEncodeArray(d.cipher) \o <<Dot>> \o
        Base64UrlEncodeArray(d.tag)

\* as EncrypterJoin, but without waiting for encryptedCek
EncrypterJoinRace ==
    /\ api = "Encrypter"
    /\ p.enc.st = "resolved"
    /\ p.out.st = "pending"
    /\ p' = [p EXCEPT !.out = Resolved(EncrypterSerialize(p.wrap.v, data))]
    /\ UNCHANGED <<config, other, imported, userHeaders, phase, locals, r, data, failures, first, log>>

\* Promise.all([encryptedCek, encPromise]).then(...)
EncrypterJoin ==
    /\ api = "Encrypter"
    /\ p.wrap.st = "resolved"
    /\ p.enc.st = "resolved"
    /\ p.out.st = "pending"
    /\ p' = [p EXCEPT !.out = Resolved(EncrypterSerialize(p.wrap.v, data))]
    /\ UNCHANGED <<config, other, imported, userHeaders, phase, locals, r, data, failures, first, log>>
(***************************************************************************)
(* JoseJWE.prototype                                                       *)
(***************************************************************************)
\* the header object of encryptPlaintext
JoseHeaders == <<[k |-> StrAlg, v |-> alg], [k |-> StrEnc, v |-> cfg.jwe_name]>>

\* the checks encryptPlaintext makes before it returns: the reason of the
\* Promise.reject, "" when every check passes
JoseValidate(newIv) ==
    IF Len(newIv) # cfg.iv_length THEN "encryptPlaintext: invalid IV length"
    ELSE IF cfg.aead /\ cfg.tag_length % 8 # 0
        THEN "encryptPlaintext: invalid tag_length"
    ELSE IF ~cfg.aead /\ cfg.truncated_length % 8 # 0
        THEN "encryptPlaintext: invalid truncated HMAC length"
    ELSE ""

Validated == phase = "called" /\ JoseValidate(iv) = ""

\* encrypt(key_promise, plain_text), up to the return of the promise:
\* createCEK, encryptCek and the synchronous part of encryptPlaintext
JoseEncrypt(text, newIv) ==
    /\ api = "JoseJWE"
    /\ phase = "idle"
    /\ phase' = "called"
    /\ plain' = arrayFromString(text)
    /\ headers' = JoseHeaders
    /\ header' = Base64UrlEncode(JSONStringify(headers'))
    /\ iv' = newIv
    /\ aad' = arrayFromString(header')
    /\ log' = log \o <<Call("createCEK", <<>>, <<>>, <<>>, <<>>, 0),
                       Call("createIV", <<>>, <<>>, <<>>, <<>>, 0)>>
    /\ IF JoseValidate(newIv) = ""
          THEN UNCHANGED <<p, failures, first>>
          ELSE /\ p' = [p EXCEPT !.enc = Rejected(JoseValidate(newIv))]
               /\ failures' = Append(failures, JoseValidate(newIv))
               /\ first' = "enc"
    /\ UNCHANGED <<config, other, imported, userHeaders, presetCEK, r, data>>

\* encryptCek: Promise.all([key_promise, cek_promise]).then(...): wrapKey
JoseWrapKey ==
    /\ api = "JoseJWE"
    /\ phase = "called"
    /\ p.key.st = "resolved"
    /\ p.cek.st = "resolved"
    /\ ~Invoked("wrapKey")
    /\ log' = Append(log, Call("wrapKey", p.key.v, <<>>, <<>>, p.cek.v, 0))
    /\ UNCHANGED <<config, other, imported, userHeaders, phase, locals, p, r, data, failures, first>>

\* AEAD: cek_promise.then(function(cek) { return crypto.subtle.encrypt(...) })
JoseAeadEncrypt ==
    /\ api = "JoseJWE"
    /\ Validated
    /\ cfg.aead
    /\ p.cek.st = "resolved"
    /\ ~Invoked("encrypt")
    /\ log' = Append(log, Call("encrypt", p.cek.v, iv, aad, plain, cfg.tag_length))
    /\ UNCHANGED <<config, other, imported, userHeaders, phase, locals, p, r, data, failures, first>>

\* as AeadSplit, but the offset is counted from the start of the output
AeadSplitFromStart(cipher_text, tag_length) ==
    LET offset == tag_length \div 8
    IN  [cipher |-> Slice(cipher_text, 0, offset),
         tag |-> SliceFrom(cipher_text, offset)]

\* AEAD: the split of the combined output into cipher and tag
AeadSplit(cipher_text, tag_length) ==
    LET offset == Len(cipher_text) - tag_length \div 8
    IN  [cipher |-> Slice(cipher_text, 0, offset),
         tag |-> SliceFrom(cipher_text, offset)]

\* AEAD: .then(function(cipher_text) { ... })
JoseAeadResult ==
    /\ api = "JoseJWE"
    /\ cfg.aead
    /\ p.cipherText.st = "resolved"
    /\ p.enc.st = "pending"
    /\ data' = [header |-> header, iv |-> iv,
                cipher |-> AeadSplit(p.cipherText.v, cfg.tag_length).cipher,
                tag |-> AeadSplit(p.cipherText.v, cfg.tag_length).tag]
    /\ p' = [p EXCEPT !.enc = Resolved(<<>>)]
    /\ UNCHANGED <<config, other, imported, userHeaders, phase, locals, r, failures, log>>
    /\ first' = First("enc")

\* composite: cek_bytes_promise, exportKey("raw", cek)
JoseExportKey ==
    /\ api = "JoseJWE"
    /\ Validated
    /\ ~cfg.aead
    /\ p.cek.st = "resolved"
    /\ ~Invoked("exportKey")
    /\ log' = Append(log, Call("exportKey", p.cek.v, <<>>, <<>>, <<>>, 0))
    /\ UNCHANGED <<config, other, imported, userHeaders, phase, locals, p, r, data, failures, first>>

\* composite: the length check both key handlers make on the exported CEK
CekLengthOk(cek_bytes) == Len(cek_bytes) * 8 = cfg.id_length + cfg.key_size

\* as MacKeyBytes, but the MAC key is taken from the end of the CEK
MacKeyBytesFromEnd(cek_bytes) == SliceFrom(cek_bytes, Len(cek_bytes) - cfg.key_size \div 8)

MacKeyBytes(cek_bytes) == Slice(cek_bytes, 0, cfg.key_size \div 8)
EncKeyBytes(cek_bytes) == SliceFrom(cek_bytes, cfg.key_size \div 8)

AddFailure(f, e) == IF \E i \in 1..Len(f) : f[i] = e THEN f ELSE Append(f, e)

\* composite: mac_key_promise
JoseImportMacKey ==
    /\ api = "JoseJWE"
    /\ p.cekBytes.st = "resolved"
    /\ p.macKey.st = "pending"
    /\ ~Invoked("importKey.sign")
    /\ IF CekLengthOk(p.cekBytes.v)
          THEN /\ log' = Append(log, Call("importKey.sign", <<>>, <<>>, <<>>,
                                          MacKeyBytes(p.cekBytes.v), 0))
               /\ UNCHANGED <<p, failures>>
          ELSE /\ p' = [p EXCEPT !.macKey = Rejected("encryptPlaintext: incorrect cek length")]
               /\ failures' = AddFailure(failures, "encryptPlaintext: incorrect cek length")
               /\ UNCHANGED log
    /\ UNCHANGED <<config, other, imported, userHeaders, phase, locals, r, data, first>>

\* as JoseImportEncKey, but without the check of the CEK length
JoseImportEncKeyUnchecked ==
    /\ api = "JoseJWE"
    /\ p.cekBytes.st = "resolved"
    /\ p.encKey.st = "pending"
    /\ ~Invoked("importKey.encrypt")
    /\ log' = Append(log, Call("importKey.encrypt", <<>>, <<>>, <<>>,
                               EncKeyBytes(p.cekBytes.v), 0))
    /\ UNCHANGED <<config, other, imported, userHeaders, phase, locals, p, r, data, failures, first>>

\* composite: enc_key_promise
JoseImportEncKey ==
    /\ api = "JoseJWE"
    /\ p.cekBytes.st = "resolved"
    /\ p.encKey.st = "pending"
    /\ ~Invoked("importKey.encrypt")
    /\ IF CekLengthOk(p.cekBytes.v)
          THEN /\ log' = Append(log, Call("importKey.encrypt", <<>>, <<>>, <<>>,
                                          EncKeyBytes(p.cekBytes.v), 0))
               /\ UNCHANGED <<p, failures>>
          ELSE /\ p' = [p EXCEPT !.encKey = Rejected("encryptPlaintext: incorrect cek length")]
               /\ failures' = AddFailure(failures, "encryptPlaintext: incorrect cek length")
               /\ UNCHANGED log
    /\ UNCHANGED <<config, other, imported, userHeaders, phase, locals, r, data, first>>

\* composite: cipher_text_promise
JoseCipherEncrypt ==
    /\ api = "JoseJWE"
    /\ ~cfg.aead
    /\ p.encKey.st = "resolved"
    /\ ~Invoked("encrypt")
    /\ log' = Append(log, Call("encrypt", p.encKey.v, iv, <<>>, plain, 0))
    /\ UNCHANGED <<config, other, imported, userHeaders, phase, locals, p, r, data, failures, first>>

\* Utils.arrayFromInt32: the four bytes of a Uint32Array([i]) in host order
arrayFromInt32(i, littleEndian) ==
    LET be == <<(i \div 16777216) % 256, (i \div 65536) % 256, (i \div 256) % 256, i % 256>>
    IN  IF littleEndian THEN <<be[4], be[3], be[2], be[1]>> ELSE be

\* al_bigendian: for (i = 0; i < 4; i++) al_bigendian[7-i] = al[i]
AlBigEndian(al) == <<0, 0, 0, 0, al[4], al[3], al[2], al[1]>>

\* as MacBuffer, but the IV comes before the AAD
MacBufferIvFirst(aadBytes, ivBytes, cipher_text, littleEndian) ==
    ivBytes \o aadBytes \o cipher_text
        \o AlBigEndian(arrayFromInt32(Len(aadBytes) * 8, littleEndian))

\* Utils.arrayBufferConcat(aad.buffer, iv.buffer, cipher_text, al_bigendian.buffer)
MacBuffer(aadBytes, ivBytes, cipher_text, littleEndian) ==
    aadBytes \o ivBytes \o cipher_text
        \o AlBigEndian(arrayFromInt32(Len(aadBytes) * 8, littleEndian))

\* as JoseSign, but without waiting for the MAC key
JoseSignBeforeMacKey ==
    /\ api = "JoseJWE"
    /\ Invoked("importKey.sign")
    /\ p.cipherText.st = "resolved"
    /\ ~Invoked("sign")
    /\ log' = Append(log, Call("sign", p.macKey.v, <<>>, <<>>,
                               MacBuffer(aad, iv, p.cipherText.v, hostLE), 0))
    /\ UNCHANGED <<config, other, imported, userHeaders, phase, locals, p, r, data, failures, first>>

\* composite: mac_promise
JoseSign ==
    /\ api = "JoseJWE"
    /\ p.macKey.st = "resolved"
    /\ p.cipherText.st = "resolved"
    /\ ~Invoked("sign")
    /\ log' = Append(log, Call("sign", p.macKey.v, <<>>, <<>>,
                               MacBuffer(aad, iv, p.cipherText.v, hostLE), 0))
    /\ UNCHANGED <<config, other, imported, userHeaders, phase, locals, p, r, data, failures, first>>

\* composite: the tag is the head of the MAC
TruncateMac(mac) == Slice(mac, 0, cfg.truncated_length \div 8)

\* composite: Promise.all([cipher_text_promise, mac_promise]).then(...)
JoseCompositeResult ==
    /\ api = "JoseJWE"
    /\ ~cfg.aead
    /\ p.cipherText.st = "resolved"
    /\ p.mac.st = "resolved"
    /\ p.enc.st = "pending"
    /\ data' = [header |-> header, iv |-> iv, cipher |-> p.cipherText.v,
                tag |-> TruncateMac(p.mac.v)]
    /\ p' = [p EXCEPT !.enc = Resolved(<<>>)]
    /\ UNCHANGED <<config, other, imported, userHeaders, phase, locals, r, failures, log>>
    /\ first' = First("enc")

\* as JoseSerialize, but the tag comes before the ciphertext
JoseSerializeTagFirst(encrypted_cek, d) ==
    d.header \o <<Dot>> \o
        Base64UrlEncodeArray(encrypted_cek) \o <<Dot>> \o
        Base64UrlEncodeArray(d.iv) \o <<Dot>> \o
        Base64UrlEncodeArray(d.tag) \o <<Dot>> \o
        Base64UrlEncodeArray(d.cipher)

\* the string the final then-callback of JoseJWE.prototype.encrypt returns
JoseSerialize(encrypted_cek, d) ==
    d.header \o <<Dot>> \o
        Base64UrlEncodeArray(encrypted_cek) \o <<Dot>> \o
        Base64UrlEncodeArray(d.iv) \o <<Dot>> \o
        Base64UrlEncodeArray(d.cipher) \o <<Dot>> \o
        Base64UrlEncodeArray(d.tag)

\* as JoseJoin, but a failed wrap yields an empty segment
JoseJoinDespiteWrapFailure ==
    /\ api = "JoseJWE"
    /\ p.wrap.st # "pending"
    /\ p.enc.st = "resolved"
    /\ p.out.st = "pending"
    /\ p' = [p EXCEPT !.out = Resolved(JoseSerialize(p.wrap.v, data))]
    /\ UNCHANGED <<config, other, imported, userHeaders, phase, locals, r, data, failures, first, log>>

\* Promise.all([encrypted_cek, enc_promise]).then(...)
JoseJoin ==
    /\ api = "JoseJWE"
    /\ p.wrap.st = "resolved"
    /\ p.enc.st = "resolved"
    /\ p.out.st = "pending"
    /\ p' = [p EXCEPT !.out = Resolved(JoseSerialize(p.wrap.v, data))]
    /\ UNCHANGED <<config, other, imported, userHeaders, phase, locals, r, data, failures, first, log>>

(***************************************************************************)
(* Promise machinery and the collaborators                                 *)
(***************************************************************************)
\* <<a, b>>: b was made by a.then(onFulfilled) or by Promise.all([.., a, ..]),
\* so a rejection of a rejects b
EncrypterEdges ==
    (IF Direct THEN {} ELSE {<<"key", "wrap">>, <<"cek", "wrap">>})
        \cup {<<"cgEnc", "enc">>, <<"wrap", "out">>, <<"enc", "out">>}

\* as JoseEdges, but a failure of the MAC does not reach enc_promise
JoseEdgesWithoutMac ==
    {<<"key", "wrap">>, <<"cek", "wrap">>, <<"wrap", "out">>, <<"enc", "out">>}
        \cup (IF ~Validated THEN {}
              ELSE IF cfg.aead THEN {<<"cek", "enc">>, <<"cipherText", "enc">>}
              ELSE {<<"cek", "cekBytes">>, <<"cekBytes", "macKey">>,
                    <<"cekBytes", "encKey">>, <<"encKey", "cipherText">>,
                    <<"macKey", "mac">>, <<"cipherText", "mac">>,
                    <<"cipherText", "enc">>})

JoseEdges ==
    {<<"key", "wrap">>, <<"cek", "wrap">>, <<"wrap", "out">>, <<"enc", "out">>}
        \cup (IF ~Validated THEN {}
              ELSE IF cfg.aead THEN {<<"cek", "enc">>, <<"cipherText", "enc">>}
              ELSE {<<"cek", "cekBytes">>, <<"cekBytes", "macKey">>,
                    <<"cekBytes", "encKey">>, <<"encKey", "cipherText">>,
                    <<"macKey", "mac">>, <<"cipherText", "mac">>,
                    <<"cipherText", "enc">>, <<"mac", "enc">>})

Edges == IF api = "Encrypter" THEN EncrypterEdges ELSE JoseEdges

\* a rejected promise rejects a pending promise derived from it, with the
\* same reason
Propagate(a, b) ==
    /\ phase = "called"
    /\ <<a, b>> \in Edges
    /\ p[a].st = "rejected"
    /\ p[b].st = "pending"
    /\ p' = [p EXCEPT ![b] = p[a]]
    /\ UNCHANGED <<config, other, imported, userHeaders, phase, locals, r, data, failures, log>>
    /\ first' = First(b)

\* a promise of a collaborator settles
Settle(name, result) ==
    /\ p[name].st = "pending"
    /\ p' = [p EXCEPT ![name] = result]
    /\ failures' = IF result.st = "rejected" THEN Append(failures, result.err)
                   ELSE failures
    /\ imported' = IF name \in {"macKey", "encKey"} /\ result.st = "resolved"
                   THEN Append(imported, name) ELSE imported
    /\ UNCHANGED <<config, other, userHeaders, phase, locals, r, data, log>>
    /\ first' = First(name)

\* keyPromise / key_promise
KeySettle ==
    \/ \E k \in KeyValues : Settle("key", Resolved(k))
    \/ Settle("key", Rejected("key error"))

\* the promise of createCek() / createCEK()
CekSettle ==
    /\ Invoked("createCek") \/ Invoked("createCEK")
    /\ \/ \E c \in CekValues : Settle("cek", Resolved(c))
       \/ Settle("cek", Rejected("cek error"))

\* the promise of wrapCek() / crypto.subtle.wrapKey()
WrapSettle ==
    /\ Invoked("wrapCek") \/ Invoked("wrapKey")
    /\ \/ \E w \in WrappedValues : Settle("wrap", Resolved(w))
       \/ Settle("wrap", Rejected("wrap error"))

\* the promise of crypto.subtle.exportKey("raw", cek): the bytes of the key
ExportSettle ==
    /\ Invoked("exportKey")
    /\ \/ Settle("cekBytes", Resolved(TheCall("exportKey").key))
       \/ Settle("cekBytes", Rejected("export error"))

\* the promises of crypto.subtle.importKey: a key of the bytes given
ImportMacSettle ==
    /\ Invoked("importKey.sign")
    /\ \/ Settle("macKey", Resolved(TheCall("importKey.sign").data))
       \/ Settle("macKey", Rejected("import error"))

ImportEncSettle ==
    /\ Invoked("importKey.encrypt")
    /\ \/ Settle("encKey", Resolved(TheCall("importKey.encrypt").data))
       \/ Settle("encKey", Rejected("import error"))

\* the promise of crypto.subtle.encrypt
CipherSettle ==
    /\ Invoked("encrypt")
    /\ \/ \E c \in CipherOutputs : Settle("cipherText", Resolved(c))
       \/ Settle("cipherText", Rejected("encrypt error"))

\* the promise of crypto.subtle.sign
MacSettle ==
    /\ Invoked("sign")
    /\ \/ \E m \in MacValues : Settle("mac", Resolved(m))
       \/ Settle("mac", Rejected("sign error"))

\* the promise of cryptographer.encrypt(iv, aad, cekPromise, plainText): it
\* needs the CEK, so it resolves once cekPromise has, fails as cekPromise
\* fails, or fails by itself
CryptographerSettle ==
    /\ Invoked("cryptographer.encrypt")
    /\ p.cgEnc.st = "pending"
    /\ \/ /\ CekPromise.st = "resolved"
          /\ \E res \in CryptographerResults :
                /\ r' = res
                /\ p' = [p EXCEPT !.cgEnc = Resolved(<<>>)]
                /\ UNCHANGED failures
       \/ /\ CekPromise.st = "rejected"
          /\ p' = [p EXCEPT !.cgEnc = CekPromise]
          /\ UNCHANGED <<r, failures>>
       \/ /\ p' = [p EXCEPT !.cgEnc = Rejected("encrypt error")]
          /\ failures' = Append(failures, "encrypt error")
          /\ UNCHANGED r
    /\ UNCHANGED <<config, other, imported, userHeaders, phase, locals, data, first, log>>

Next ==
    \/ \E kv \in HeaderInputs : addHeader(kv[1], kv[2])
    \/ \E pt \in PlainTexts, newIv \in {i \in IVs : Len(i) = cfg.iv_length},
          preset \in {[defined |-> FALSE, v |-> <<>>]}
                        \cup {[defined |-> TRUE, v |-> c] : c \in PresetCeks} :
            EncrypterEncrypt(pt, preset, newIv)
    \/ EncrypterWrapCek
    \/ EncrypterAttach
    \/ EncrypterJoin
    \/ \E text \in PlainTexts, newIv \in IVs : JoseEncrypt(text, newIv)
    \/ JoseWrapKey
    \/ JoseAeadEncrypt
    \/ JoseAeadResult
    \/ JoseExportKey
    \/ JoseImportMacKey
    \/ JoseImportEncKey
    \/ JoseCipherEncrypt
    \/ JoseSign
    \/ JoseCompositeResult
    \/ JoseJoin
    \/ \E a \in PromiseNames, b \in PromiseNames : Propagate(a, b)
    \/ KeySettle
    \/ CekSettle
    \/ WrapSettle
    \/ ExportSettle
    \/ ImportMacSettle
    \/ ImportEncSettle
    \/ CipherSettle
    \/ MacSettle
    \/ CryptographerSettle

Spec == Init /\ [][Next]_vars

\* the then-callbacks: the job queue runs every reaction of a settled promise
Reactions ==
    \/ EncrypterWrapCek
    \/ EncrypterAttach
    \/ EncrypterJoin
    \/ JoseWrapKey
    \/ JoseAeadEncrypt
    \/ JoseAeadResult
    \/ JoseExportKey
    \/ JoseImportMacKey
    \/ JoseImportEncKey
    \/ JoseCipherEncrypt
    \/ JoseSign
    \/ JoseCompositeResult
    \/ JoseJoin
    \/ \E a \in PromiseNames, b \in PromiseNames : Propagate(a, b)

\* the promises of the collaborators: each of them settles
Collaborators ==
    \/ KeySettle
    \/ CekSettle
    \/ WrapSettle
    \/ ExportSettle
    \/ ImportMacSettle
    \/ ImportEncSettle
    \/ CipherSettle
    \/ MacSettle
    \/ CryptographerSettle

\* the program when every collaborator promise settles and every reaction
\* runs
SpecLive == Init /\ [][Next]_vars /\ WF_vars(Reactions) /\ WF_vars(Collaborators)

\* an Encrypter on which encrypt() is called a second time while the first
\* call is in flight or done
InitTwoCalls == Init /\ api = "Encrypter" /\ cfg.aead

NextTwoCalls ==
    \/ \E kv \in HeaderInputs : addHeader(kv[1], kv[2])
    \/ \E pt \in PlainTexts, newIv \in {i \in IVs : Len(i) = cfg.iv_length},
          preset \in {[defined |-> FALSE, v |-> <<>>]}
                        \cup {[defined |-> TRUE, v |-> c] : c \in PresetCeks} :
            EncrypterEncrypt(pt, preset, newIv)
    \/ \E pt \in PlainTexts, newIv \in {i \in IVs : Len(i) = cfg.iv_length},
          preset \in {[defined |-> FALSE, v |-> <<>>]}
                        \cup {[defined |-> TRUE, v |-> c] : c \in PresetCeks} :
            EncrypterEncryptOther(pt, preset, newIv)
    \/ EncrypterWrapCek
    \/ EncrypterAttach
    \/ EncrypterJoin
    \/ \E a \in PromiseNames, b \in PromiseNames : Propagate(a, b)
    \/ KeySettle
    \/ CekSettle
    \/ WrapSettle
    \/ CryptographerSettle

SpecTwoCalls == InitTwoCalls /\ [][NextTwoCalls]_vars

(***************************************************************************)
(* Properties                                                              *)
(***************************************************************************)
Called(a) == api = a /\ phase = "called"
Segments == Split(p.out.v, Dot)
\* the bytes of a string whose characters are all ASCII
AsciiBytes(str) == [i \in 1..Len(str) |-> str[i]]
IsAscii(str) == \A i \in 1..Len(str) : str[i] < 128

\* C1: whatever the caller added with addHeader, alg or enc included, the
\* header Encrypter.encrypt serializes has alg = getKeyEncryptionAlgorithm()
\* and enc = getContentEncryptionAlgorithm(), and every caller entry with
\* another key is there with the caller's value.
C1_HeaderAlgEncForced ==
    [][(api = "Encrypter" /\ phase = "idle" /\ phase' = "called") =>
        /\ HasProp(headers', StrAlg) /\ GetProp(headers', StrAlg) = alg
        /\ HasProp(headers', StrEnc) /\ GetProp(headers', StrEnc) = cfg.jwe_name
        /\ \A i \in 1..Len(userHeaders) :
              userHeaders[i].k \notin {StrAlg, StrEnc} =>
                 /\ HasProp(headers', userHeaders[i].k)
                 /\ GetProp(headers', userHeaders[i].k) = userHeaders[i].v
        /\ header' = Base64UrlEncode(JSONStringify(headers'))]_vars

\* the caller added enc, alg and kid, in this order, before the call
C1_Witness ==
    /\ Called("Encrypter")
    /\ Len(headers) = 3
    /\ headers[1].k = StrEnc /\ headers[2].k = StrAlg /\ headers[3].k = StrKid
    /\ headers[3].v = <<120, 34>>
    /\ headers[2].v = alg

\* C2: in a successful call the AAD given to the cipher (the cryptographer,
\* or the AEAD crypto.subtle.encrypt) and the AAD at the head of the
\* composite MAC buffer are the ASCII bytes of the first segment of the
\* output, the encoded header, and not the bytes of the JSON text.
C2_AadIsEncodedHeader ==
    p.out.st = "resolved" =>
        LET seg == Segments[1]
        IN  /\ IsAscii(seg)
            /\ api = "Encrypter" =>
                  /\ TheCall("cryptographer.encrypt").aad = AsciiBytes(seg)
                  /\ TheCall("cryptographer.encrypt").aad
                        # arrayFromString(JSONStringify(headers))
            /\ (api = "JoseJWE" /\ cfg.aead) =>
                  /\ TheCall("encrypt").aad = AsciiBytes(seg)
                  /\ TheCall("encrypt").aad # arrayFromString(JSONStringify(headers))
            /\ (api = "JoseJWE" /\ ~cfg.aead) =>
                  /\ Len(TheCall("sign").data) >= Len(seg)
                  /\ SubSeq(TheCall("sign").data, 1, Len(seg)) = AsciiBytes(seg)
                  /\ aad = AsciiBytes(seg)

\* a composite call has resolved, its MAC computed over a buffer
C2_Witness ==
    /\ Called("JoseJWE") /\ ~cfg.aead
    /\ p.out.st = "resolved"
    /\ Invoked("sign")
    /\ Len(TheCall("sign").data) = Len(aad) + Len(iv) + Len(p.cipherText.v) + 8

\* C3: the string encrypt resolves to is five segments joined by '.': the
\* encoded header, then the base64url of the wrapped key, of the IV, of the
\* ciphertext and of the tag.
C3_FiveSegments ==
    p.out.st = "resolved" =>
        Segments = <<header,
                     Base64UrlEncodeArray(p.wrap.v),
                     Base64UrlEncodeArray(iv),
                     Base64UrlEncodeArray(data.cipher),
                     Base64UrlEncodeArray(data.tag)>>

\* an AEAD call has resolved with a wrapped key, a ciphertext and a tag
C3_Witness ==
    /\ Called("JoseJWE") /\ cfg.aead
    /\ p.out.st = "resolved"
    /\ p.wrap.v # <<>> /\ data.cipher # <<>> /\ data.tag # <<>>
    /\ data.cipher # data.tag

\* C4: under 'dir' the second segment of Encrypter.encrypt's output is
\* empty and neither wrapCek nor createCek is invoked, with or without a
\* presetCEK.
C4_DirectNoWrap ==
    (api = "Encrypter" /\ alg = StrDir) =>
        /\ ~Invoked("wrapCek")
        /\ ~Invoked("createCek")
        /\ p.out.st = "resolved" => (Len(Segments) >= 2 /\ Segments[2] = <<>>)

\* a 'dir' call that was given a presetCEK has resolved
C4_Witness ==
    /\ Called("Encrypter") /\ alg = StrDir
    /\ presetCEK.defined
    /\ p.out.st = "resolved"

\* the reasons the spec's taxonomy files under ConfigurationError
ConfigurationErrors ==
    {"encryptPlaintext: invalid IV length", "encryptPlaintext: invalid tag_length",
     "encryptPlaintext: invalid truncated HMAC length",
     "encryptPlaintext: incorrect cek length"}

IsFailure(e) == \E i \in 1..Len(failures) : failures[i] = e

\* C5 as stated: the call resolves to the complete five-segment string, or
\* rejects with the failure of the first stage that failed; it does not
\* resolve when a stage failed.
C5_RejectsWithFirstFailure ==
    /\ p.out.st = "resolved" => (failures = <<>> /\ Len(Segments) = 5)
    /\ p.out.st = "rejected" => (failures # <<>> /\ p.out.err = failures[1])

\* C5, amended: the call resolves to the complete five-segment string, or
\* rejects with the unchanged failure of one of the stages that failed (the
\* one whose rejection reaches the final Promise.all first); it does not
\* resolve when a stage failed, and once settled it stays as it is.
C5_SingleOutcome ==
    /\ [](p.out.st = "resolved" => (failures = <<>> /\ Len(Segments) = 5))
    /\ [](p.out.st = "rejected" => IsFailure(p.out.err))
    /\ [][p.out.st # "pending" => p'.out = p.out]_vars

\* two stages failed and the call rejected with the failure of the second
C5_Witness ==
    /\ p.out.st = "rejected"
    /\ Len(failures) = 2
    /\ failures[1] # failures[2]
    /\ p.out.err = failures[2]

\* C6: the serializer runs only once the wrapping branch and the content
\* encryption branch have both completed, and its string is made of the
\* two results in the same way whichever branch completed first.
C6_JoinBarrier ==
    p.out.st = "resolved" =>
        /\ p.wrap.st = "resolved"
        /\ p.enc.st = "resolved"
        /\ first \in {"wrap", "enc"}
        /\ p.out.v = data.header \o <<Dot>> \o Base64UrlEncodeArray(p.wrap.v)
                        \o <<Dot>> \o Base64UrlEncodeArray(data.iv)
                        \o <<Dot>> \o Base64UrlEncodeArray(data.cipher)
                        \o <<Dot>> \o Base64UrlEncodeArray(data.tag)

\* the content encryption completed before the wrapping did, and the call
\* resolved
C6_Witness ==
    /\ p.out.st = "resolved"
    /\ first = "enc"
    /\ Invoked("wrapCek") \/ Invoked("wrapKey")

\* C7 as stated: with an IV of the wrong length the pipeline of
\* JoseJWE.prototype.encrypt fails with a ConfigurationError, and no
\* cipher primitive (crypto.subtle.encrypt, wrapKey) is invoked before the
\* failure.
C7_BadIvNoCipherPrimitive ==
    (Called("JoseJWE") /\ Len(iv) # cfg.iv_length) =>
        /\ p.out.st # "resolved"
        /\ p.enc.st = "rejected" /\ p.enc.err \in ConfigurationErrors
        /\ p.out.st = "pending" => (~Invoked("encrypt") /\ ~Invoked("wrapKey"))

\* C8 as stated: with a tag_length (AEAD) or truncated_length (composite)
\* that is not a multiple of 8 the pipeline fails and no cipher or MAC
\* primitive (crypto.subtle.encrypt, sign, wrapKey) executes during the
\* call.
C8_BadTagLengthNoPrimitive ==
    (Called("JoseJWE") /\ ((cfg.aead /\ cfg.tag_length % 8 # 0)
                            \/ (~cfg.aead /\ cfg.truncated_length % 8 # 0))) =>
        /\ p.out.st # "resolved"
        /\ p.enc.st = "rejected"
        /\ ~Invoked("encrypt") /\ ~Invoked("sign") /\ ~Invoked("wrapKey")

\* C9: in composite mode, when the exported CEK is not id.length + key_size
\* bits long, the content encryption fails with the length error, the call
\* does not resolve, and no key is imported, nothing encrypted or signed.
C9_CekLengthMismatch ==
    (Called("JoseJWE") /\ ~cfg.aead /\ p.cekBytes.st = "resolved"
        /\ Len(p.cekBytes.v) * 8 # cfg.id_length + cfg.key_size) =>
        /\ ~Invoked("importKey.sign") /\ ~Invoked("importKey.encrypt")
        /\ ~Invoked("encrypt") /\ ~Invoked("sign")
        /\ p.out.st # "resolved"
        /\ p.enc.st # "resolved"
        /\ p.enc.st = "rejected" =>
              p.enc.err = "encryptPlaintext: incorrect cek length"
        /\ (p.out.st = "rejected" /\ p.wrap.st # "rejected") =>
              p.out.err \in ConfigurationErrors

\* a three-byte CEK was exported where two bytes are due, and the call
\* was rejected for it
C9_Witness ==
    /\ Called("JoseJWE") /\ ~cfg.aead
    /\ p.cekBytes.st = "resolved" /\ Len(p.cekBytes.v) = 3
    /\ p.out.st = "rejected"
    /\ p.out.err = "encryptPlaintext: incorrect cek length"

\* C10: in AEAD mode, for a combined output of at least tag_length/8
\* bytes, the tag is its last tag_length/8 bytes, the ciphertext the bytes
\* before them, and ciphertext followed by tag is the combined output.
C10_AeadSplitExact ==
    (Called("JoseJWE") /\ cfg.aead /\ p.enc.st = "resolved") =>
        LET out == p.cipherText.v
            n == cfg.tag_length \div 8
        IN  Len(out) >= n =>
               /\ data.tag = SubSeq(out, Len(out) - n + 1, Len(out))
               /\ data.cipher = SubSeq(out, 1, Len(out) - n)
               /\ data.cipher \o data.tag = out

\* a three-byte output was split with a 16-bit tag
C10_Witness ==
    /\ Called("JoseJWE") /\ cfg.aead /\ cfg.tag_length = 16
    /\ p.enc.st = "resolved"
    /\ Len(p.cipherText.v) = 3
    /\ Len(data.tag) = 2 /\ Len(data.cipher) = 1

\* the n bytes of the number x, most significant first
RECURSIVE ShiftBytes(_, _)
ShiftBytes(x, k) == IF k = 0 THEN x ELSE ShiftBytes(x \div 256, k - 1)
BigEndian(x, n) == [i \in 1..n |-> ShiftBytes(x, n - i) % 256]

\* C11: in composite mode, for a CEK of the right length, the MAC key is
\* imported from the first key_size/8 bytes of the exported CEK and the
\* encryption key from all the bytes after them: two ranges that do not
\* overlap and together are the whole CEK.
C11_CekSplit ==
    (Called("JoseJWE") /\ ~cfg.aead /\ p.cekBytes.st = "resolved") =>
        LET cek == p.cekBytes.v
            n == cfg.key_size \div 8
        IN  /\ Invoked("importKey.sign") =>
                  /\ Len(cek) * 8 = cfg.id_length + cfg.key_size
                  /\ TheCall("importKey.sign").data = SubSeq(cek, 1, n)
            /\ Invoked("importKey.encrypt") =>
                  /\ Len(cek) * 8 = cfg.id_length + cfg.key_size
                  /\ TheCall("importKey.encrypt").data = SubSeq(cek, n + 1, Len(cek))
            /\ (Invoked("importKey.sign") /\ Invoked("importKey.encrypt")) =>
                  /\ TheCall("importKey.sign").data \o TheCall("importKey.encrypt").data = cek
                  /\ Len(TheCall("importKey.sign").data)
                        + Len(TheCall("importKey.encrypt").data) = Len(cek)

\* both keys were imported from the two-byte CEK 10, 20
C11_Witness ==
    /\ Called("JoseJWE") /\ ~cfg.aead
    /\ p.cekBytes.st = "resolved" /\ p.cekBytes.v = <<10, 20>>
    /\ p.macKey.st = "resolved" /\ p.macKey.v = <<10>>
    /\ p.encKey.st = "resolved" /\ p.encKey.v = <<20>>

\* C12 as stated: in composite mode the AL field of the MAC buffer, its
\* last 8 bytes, is 8 * len(AAD) as 8 big-endian bytes, whatever the byte
\* order of the host.
C12_AlBigEndianOnEveryHost ==
    (Called("JoseJWE") /\ Invoked("sign")) =>
        LET buf == TheCall("sign").data
        IN  /\ Len(buf) >= 8
            /\ SubSeq(buf, Len(buf) - 7, Len(buf)) = BigEndian(8 * Len(aad), 8)

\* C13 as stated: in composite mode the tag of a successful call is the
\* first truncated_length/8 bytes of the MAC, computed under the MAC key
\* over AAD || IV || ciphertext || AL in this order, AL being the bit
\* length of the AAD as 8 big-endian bytes.
C13_TagIsTruncatedMac ==
    (Called("JoseJWE") /\ ~cfg.aead /\ p.out.st = "resolved") =>
        /\ data.tag = SubSeq(p.mac.v, 1, cfg.truncated_length \div 8)
        /\ TheCall("sign").key = p.macKey.v
        /\ p.macKey.v = SubSeq(p.cekBytes.v, 1, cfg.key_size \div 8)
        /\ TheCall("sign").data
              = aad \o iv \o p.cipherText.v \o BigEndian(8 * Len(aad), 8)

\* C14: every call uses one CEK, chosen by one of three policies that
\* exclude each other. Under 'dir' the CEK is the recipient key: no CEK is
\* created or wrapped and the content encryption gets the key promise. With
\* a presetCEK that CEK is used as it is and createCek is never invoked.
\* Otherwise createCek is invoked exactly once. When the key encryption is
\* not direct, the CEK handed to wrapCek is the CEK of the content
\* encryption; JoseJWE.prototype.encrypt always creates one CEK and hands it
\* to both.
C14_OneCek ==
    /\ Called("Encrypter") =>
          /\ Direct =>
                /\ Count("createCek") = 0
                /\ ~Invoked("wrapCek")
                /\ p.cek.st = "pending"
                /\ p.cgEnc.st = "resolved" => p.key.st = "resolved"
          /\ (~Direct /\ presetCEK.defined) =>
                /\ Count("createCek") = 0
                /\ p.cek = Resolved(presetCEK.v)
          /\ (~Direct /\ ~presetCEK.defined) => Count("createCek") = 1
          /\ ~Direct =>
                /\ Count("wrapCek") <= 1
                /\ Invoked("wrapCek") =>
                      /\ p.cek.st = "resolved"
                      /\ TheCall("wrapCek").data = p.cek.v
                /\ p.cgEnc.st = "resolved" => p.cek.st = "resolved"
    /\ Called("JoseJWE") =>
          /\ Count("createCEK") = 1
          /\ Count("wrapKey") <= 1
          /\ Invoked("wrapKey") => TheCall("wrapKey").data = p.cek.v
          /\ (cfg.aead /\ Invoked("encrypt")) => TheCall("encrypt").key = p.cek.v
          /\ Invoked("exportKey") => TheCall("exportKey").key = p.cek.v

\* a call without presetCEK and with key wrapping came to its result: the
\* CEK createCek gave was wrapped and the content encryption had it
C14_Witness ==
    /\ Called("Encrypter") /\ ~Direct /\ ~presetCEK.defined
    /\ Count("createCek") = 1
    /\ Invoked("wrapCek") /\ TheCall("wrapCek").data = p.cek.v
    /\ p.cgEnc.st = "resolved"
    /\ p.out.st = "resolved"

\* C16: in composite mode sign is invoked only after the cipher encryption
\* has completed and the MAC key has been imported. The ciphertext, the IV
\* and the AAD in the MAC buffer are byte for byte the ciphertext of the
\* result, the IV given to the cipher and returned, and the bytes of the
\* header returned. The result is these values whichever of the two key
\* imports completed first.
C16_SignAfterCipherAndMacKey ==
    (Called("JoseJWE") /\ ~cfg.aead) =>
        /\ Invoked("sign") =>
              LET buf == TheCall("sign").data
                  a == Len(aad)
                  i == Len(iv)
                  c == Len(p.cipherText.v)
              IN  /\ Invoked("encrypt")
                  /\ p.cipherText.st = "resolved"
                  /\ p.macKey.st = "resolved"
                  /\ "macKey" \in {imported[k] : k \in 1..Len(imported)}
                  /\ TheCall("sign").key = p.macKey.v
                  /\ Len(buf) = a + i + c + 8
                  /\ SubSeq(buf, 1, a) = AsciiBytes(header)
                  /\ SubSeq(buf, a + 1, a + i) = TheCall("encrypt").iv
                  /\ SubSeq(buf, a + i + 1, a + i + c) = p.cipherText.v
                  /\ p.enc.st = "resolved" =>
                        /\ SubSeq(buf, 1, a) = AsciiBytes(data.header)
                        /\ SubSeq(buf, a + 1, a + i) = data.iv
                        /\ SubSeq(buf, a + i + 1, a + i + c) = data.cipher
        /\ p.enc.st = "resolved" =>
              /\ Invoked("sign")
              /\ Len(imported) = 2
              /\ data = [header |-> header, iv |-> TheCall("encrypt").iv,
                         cipher |-> p.cipherText.v,
                         tag |-> SubSeq(p.mac.v, 1, cfg.truncated_length \div 8)]

\* a composite call came to its result with the encryption key imported
\* before the MAC key
C16_Witness ==
    /\ Called("JoseJWE") /\ ~cfg.aead
    /\ imported = <<"encKey", "macKey">>
    /\ Invoked("sign")
    /\ p.enc.st = "resolved"
    /\ p.out.st = "resolved"

\* C18: in every successful Encrypter.encrypt call the header segment and
\* the IV segment of the output encode exactly the header and the IV whose
\* bytes were given to cryptographer.encrypt as aad and iv, whatever header
\* and iv fields the result of the cryptographer carried.
C18_SegmentsAreWhatWasEncrypted ==
    (Called("Encrypter") /\ p.out.st = "resolved") =>
        /\ Count("cryptographer.encrypt") = 1
        /\ Len(Segments) = 5
        /\ IsAscii(Segments[1])
        /\ AsciiBytes(Segments[1]) = TheCall("cryptographer.encrypt").aad
        /\ Segments[3] = Base64UrlEncodeArray(TheCall("cryptographer.encrypt").iv)

\* a successful call whose cryptographer answered with header and iv fields
\* of its own
C18_Witness ==
    /\ Called("Encrypter")
    /\ p.out.st = "resolved"
    /\ r.header = <<88>> /\ r.header # header
    /\ r.iv = <<88>> /\ r.iv # iv

\* hs is uh as it is, with alg and enc set
SnapshotOf(hs, uh) ==
    /\ HasProp(hs, StrAlg) /\ GetProp(hs, StrAlg) = alg
    /\ HasProp(hs, StrEnc) /\ GetProp(hs, StrEnc) = cfg.jwe_name
    /\ \A kv \in HeaderInputs :
          kv[1] \notin {StrAlg, StrEnc} =>
              /\ HasProp(hs, kv[1]) <=> HasProp(uh, kv[1])
              /\ HasProp(uh, kv[1]) => GetProp(hs, kv[1]) = GetProp(uh, kv[1])

\* the cekPromise of the first call
FirstCek == CekOrigin(Direct, presetCEK, 1)

\* what holds of the calls on one Encrypter in a state: the header, the AAD
\* and the IV a call works with and returns are its own locals, and two
\* calls in flight have a CEK each (when shared is FALSE), or a CEK each
\* unless it is the recipient key or a presetCEK (when shared is TRUE)
CallsKeepTheirOwn(shared) ==
    Called("Encrypter") =>
        /\ header = Base64UrlEncode(JSONStringify(headers))
        /\ aad = AsciiBytes(header)
        /\ Count("createIV") = 1
        /\ TheCall("cryptographer.encrypt").aad = aad
        /\ TheCall("cryptographer.encrypt").iv = iv
        /\ p.enc.st = "resolved" => data.header = header /\ data.iv = iv
        /\ p.out.st = "resolved" =>
              /\ Segments[1] = header
              /\ Segments[3] = Base64UrlEncodeArray(iv)
        /\ other.called =>
              /\ other.header = Base64UrlEncode(JSONStringify(other.headers))
              /\ other.aad = AsciiBytes(other.header)
              /\ Cardinality({i \in 1..Len(other.log) :
                                 other.log[i].op = "createIV"}) = 1
              /\ other.log[Len(other.log)].iv = other.iv
              /\ other.log[Len(other.log)].aad = other.aad
        /\ (other.called /\ p.out.st = "pending") =>
              IF shared
              THEN FirstCek = other.cek => FirstCek.from \in {"keyPromise", "presetCEK"}
              ELSE FirstCek # other.cek

\* what holds of every step: encrypt() takes the header from userHeaders as
\* they are when it is invoked, and nothing done afterwards, addHeader and
\* another encrypt() included, changes the locals of a call
CallsStep ==
    /\ (api = "Encrypter" /\ phase = "idle" /\ phase' = "called") =>
          SnapshotOf(headers', userHeaders)
    /\ (api = "Encrypter" /\ ~other.called /\ other'.called) =>
          SnapshotOf(other'.headers, userHeaders)
    /\ Called("Encrypter") =>
          /\ UNCHANGED <<headers, header, aad, iv, presetCEK>>
          /\ other.called => UNCHANGED other

\* C17 as stated: concurrent calls on one Encrypter do not affect each
\* other. The header of a call is the snapshot of userHeaders taken when
\* encrypt() was invoked, an addHeader after encrypt() has returned changes
\* neither the header segment nor the AAD of the call in flight, and each
\* call in flight has its own IV and its own CEK.
C17_CallsIndependent == []CallsKeepTheirOwn(FALSE) /\ [][CallsStep]_vars

\* C17, amended: as above, but each call in flight has its own CEK only if
\* one is created for it; under 'dir' the calls share the recipient key, and
\* a caller may give the same presetCEK to both.
C17_CallsIndependentSharedKey == []CallsKeepTheirOwn(TRUE) /\ [][CallsStep]_vars

\* the first call came to its result although a header was added and a
\* second call, with that header and a CEK of its own, was made in between
C17_Witness ==
    /\ Called("Encrypter")
    /\ ~Direct
    /\ other.called
    /\ HasProp(other.headers, StrKid) /\ ~HasProp(headers, StrKid)
    /\ other.header # header
    /\ FirstCek.from = "createCek" /\ other.cek.from = "createCek"
    /\ FirstCek # other.cek
    /\ p.out.st = "resolved"
    /\ Segments[1] = header

\* C19: if every promise of a collaborator eventually settles, the promise
\* encrypt returned eventually settles, in AEAD, composite and direct mode.
C19_EncryptSettles == (phase = "called") ~> (p.out.st # "pending")

\* a composite call settled, rejected by a failure of sign, the last
\* collaborator of the longest chain
C19_Witness ==
    /\ Called("JoseJWE") /\ ~cfg.aead
    /\ p.mac = Rejected("sign error")
    /\ p.out = Rejected("sign error")
====
